---------------------------- MODULE Spec2Model ----------------------------
(***************************************************************************)
(* Model of src/sarif_to_pdf.py: the SARIF -> findings -> CSV/PDF pipeline *)
(* (parse_sarif, make_charts, df_to_table_data, build_pdf, main).          *)
(*                                                                         *)
(* Representation.                                                         *)
(*  - A Python str is a sequence of character codes (ASCII), so that       *)
(*    replace, strip, lower, len, slicing and sorting are computed on the  *)
(*    characters as Python computes them.                                  *)
(*  - A JSON value (what json.load returns) is a tagged record             *)
(*    [t |-> tag, v |-> payload], tag in str/num/bool/null/list/dict.      *)
(*    A dict payload is a function from keys to JSON values; keys are only *)
(*    ever looked up by literal, so they are TLA+ strings.                 *)
(*  - A Python call that can raise returns [ok |-> BOOLEAN, ...]; ok is    *)
(*    FALSE exactly when the code raises.                                  *)
(*  - A DataFrame is the sequence of its rows (records of the ten columns  *)
(*    of parse_sarif).                                                     *)
(***************************************************************************)
EXTENDS Integers, Sequences, FiniteSets

VARIABLES
    found,      \* set of paths the two glob calls of main return (input)
    files,      \* path -> content of the file on disk (input)
    sarifs,     \* main: the sorted, filtered list of paths
    i,          \* main: number of paths the for loop has consumed
    dfs,        \* main: list of the non-empty per-document DataFrames
    warns,      \* stdout: the paths of the "[WARN] Failed to parse" lines, in order
    df_all,     \* main: the concatenated DataFrame
    csv,        \* reports/findings.csv: <<>> before it is written, then <<rows>>
    charts,     \* main: the list make_charts returned
    story,      \* reports/security-report.pdf: the flowables handed to doc.build
    printed,    \* stdout: the summary lines printed at the end of main
    pc,         \* main: position in the function
    t_df,       \* df_to_table_data called on its own: argument df
    t_max,      \* df_to_table_data called on its own: argument max_rows
    t_out       \* df_to_table_data called on its own: <<>> before the call, then <<data>>

mainVars == <<found, files, sarifs, i, dfs, warns, df_all, csv, charts, story, printed, pc>>
tableVars == <<t_df, t_max, t_out>>
vars == <<found, files, sarifs, i, dfs, warns, df_all, csv, charts, story, printed, pc,
          t_df, t_max, t_out>>

----------------------------------------------------------------------------
(* Bounds of the model *)

\* longest message.text enumerated character by character
MaxText == 4
\* most files one run of main discovers
MaxFiles == 2
\* most rows of a DataFrame handed to df_to_table_data on its own
MaxTableRows == 2
\* largest max_rows handed to df_to_table_data on its own
MaxRowsArg == 3

----------------------------------------------------------------------------
(* Python str *)

\* "\n", the character line 54 replaces
LF == 10
\* " ", the character line 54 puts in its place
SP == 32

RECURSIVE Flatten(_)
Flatten(ss) == IF ss = <<>> THEN <<>> ELSE Head(ss) \o Flatten(Tail(ss))

\* str.isspace for one ASCII character: what str.strip() removes
IsSpace(c) == c \in ((9..13) \cup (28..32))

\* str.replace(old, new) for single characters
Replace(s, old, new) == [k \in 1..Len(s) |-> IF s[k] = old THEN new ELSE s[k]]

RECURSIVE LStrip(_)
LStrip(s) == IF s # <<>> /\ IsSpace(Head(s)) THEN LStrip(Tail(s)) ELSE s

RECURSIVE RStrip(_)
RStrip(s) ==
    IF s # <<>> /\ IsSpace(s[Len(s)]) THEN RStrip(SubSeq(s, 1, Len(s) - 1)) ELSE s

\* str.strip()
Strip(s) == RStrip(LStrip(s))

\* str.lower(), ASCII
Lower(s) == [k \in 1..Len(s) |-> IF s[k] \in 65..90 THEN s[k] + 32 ELSE s[k]]

\* a < b for two str: lexicographic on the character codes
RECURSIVE StrLess(_, _)
StrLess(a, b) ==
    IF b = <<>> THEN FALSE
    ELSE IF a = <<>> THEN TRUE
    ELSE IF Head(a) # Head(b) THEN Head(a) < Head(b)
    ELSE StrLess(Tail(a), Tail(b))

\* sub in s
Contains(s, sub) ==
    \E k \in 0..(Len(s) - Len(sub)) : SubSeq(s, k + 1, k + Len(sub)) = sub

\* sorted(S) for a set of str
RECURSIVE Sorted(_)
Sorted(S) ==
    IF S = {} THEN <<>>
    ELSE LET m == CHOOSE x \in S : \A y \in S \ {x} : StrLess(x, y)
         IN  <<m>> \o Sorted(S \ {m})

\* os.path.basename: what follows the last "/"
RECURSIVE basename(_)
basename(p) ==
    IF \E k \in 1..Len(p) : p[k] = 47
    THEN LET k == CHOOSE j \in 1..Len(p) : p[j] = 47 IN basename(SubSeq(p, k + 1, Len(p)))
    ELSE p

\* str(n) for an int
RECURSIVE Digits(_)
Digits(n) == IF n < 10 THEN <<48 + n>> ELSE Digits(n \div 10) \o <<48 + (n % 10)>>

----------------------------------------------------------------------------
(* JSON values, as json.load returns them *)

JStr(s) == [t |-> "str", v |-> s]
JNum(n) == [t |-> "num", v |-> n]
JBool(b) == [t |-> "bool", v |-> b]
JNull == [t |-> "null", v |-> 0]
JList(xs) == [t |-> "list", v |-> xs]
JDict(m) == [t |-> "dict", v |-> m]

EmptyStr == JStr(<<>>)
EmptyDict == JDict(<<>>)
EmptyList == JList(<<>>)

\* bool(x): Python truthiness, what "x or y" tests
Truthy(x) ==
    CASE x.t = "str" -> x.v # <<>>
      [] x.t = "num" -> x.v # 0
      [] x.t = "bool" -> x.v
      [] x.t = "null" -> FALSE
      [] x.t = "list" -> x.v # <<>>
      [] x.t = "dict" -> DOMAIN x.v # {}

\* x or y
Or(x, y) == IF Truthy(x) THEN x ELSE y

IsDict(x) == x.t = "dict"

\* d.get(key, default) on a dict
DictGet(d, key, default) == IF key \in DOMAIN d.v THEN d.v[key] ELSE default

\* repr(x) of a str without quotes, backslashes or control characters
Quote(s) == <<39>> \o s \o <<39>>

\* str(x).  Containers are printed as Python prints them when they are empty or
\* hold only str, int, bool and None; the inputs put no other container where
\* the program applies str().
RECURSIVE PyStr(_)
RECURSIVE PyRepr(_)
RECURSIVE JoinRepr(_)
PyStr(x) ==
    CASE x.t = "str" -> x.v
      [] x.t = "num" -> IF x.v < 0 THEN <<45>> \o Digits(0 - x.v) ELSE Digits(x.v)
      [] x.t = "bool" -> IF x.v THEN <<84,114,117,101>> ELSE <<70,97,108,115,101>>
      [] x.t = "null" -> <<78,111,110,101>>
      [] x.t = "list" -> <<91>> \o JoinRepr(x.v) \o <<93>>
      [] x.t = "dict" -> <<123,125>>
PyRepr(x) == IF x.t = "str" THEN Quote(x.v) ELSE PyStr(x)
JoinRepr(xs) ==
    IF xs = <<>> THEN <<>>
    ELSE IF Len(xs) = 1 THEN PyRepr(xs[1])
    ELSE PyRepr(xs[1]) \o <<44,32>> \o JoinRepr(Tail(xs))

----------------------------------------------------------------------------
(* _get and parse_sarif *)

\* _get(obj, path, default): descend key by key, default on the first failure
RECURSIVE _get(_, _, _)
_get(obj, path, default) ==
    IF path = <<>> THEN obj
    ELSE IF IsDict(obj) /\ Head(path) \in DOMAIN obj.v
         THEN _get(obj.v[Head(path)], Tail(path), default)
         ELSE default

\* line 54 without .strip()
NormalizeNoStrip(msg) == Replace(msg, LF, SP)

\* line 54: msg.replace("\n", " ").strip()
Normalize(msg) == Strip(Replace(msg, LF, SP))

\* line 47: the first truthy value among the three keys, else ""
SeverityOf(props) ==
    Or(DictGet(props, "severity", JNull),
       Or(DictGet(props, "security-severity", JNull),
          Or(DictGet(props, "cvss", JNull), EmptyStr)))

\* "for x in v" followed by x.get(...): v must be a list.  A number, true or a
\* non-empty dict or str raises (TypeError, or AttributeError on the str each
\* of them yields); the "or []" before the loop turns every falsy value into [].
Iterable(v) == v.t = "list"

\* lines 34-59: one result entry r of a run.  ok is FALSE when a line raises.
ParseResult(r, tool, path) ==
    IF ~IsDict(r) THEN [ok |-> FALSE, row |-> <<>>]                    \* line 34
    ELSE
    LET rule_id == DictGet(r, "ruleId", EmptyStr)
        level == DictGet(r, "level", EmptyStr)
        msg == _get(r, <<"message", "text">>, EmptyStr)
        locs == Or(DictGet(r, "locations", JNull), JList(<<EmptyDict>>))
        locOk == locs.t = "list"                                       \* line 38: [0]
        loc0 == IF locOk THEN locs.v[1] ELSE EmptyDict
        plocOk == locOk /\ IsDict(loc0)                                \* line 39
        ploc == IF plocOk THEN Or(DictGet(loc0, "physicalLocation", JNull), EmptyDict)
                ELSE EmptyDict
        uri == _get(ploc, <<"artifactLocation", "uri">>, EmptyStr)
        regionOk == plocOk /\ IsDict(ploc)                             \* line 41
        region == IF regionOk THEN Or(DictGet(ploc, "region", JNull), EmptyDict)
                  ELSE EmptyDict
        lineOk == regionOk /\ IsDict(region)                           \* lines 42-44
        props == Or(DictGet(r, "properties", JNull), EmptyDict)
        propsOk == IsDict(props)                                       \* line 47
        msgOk == msg.t = "str"                                         \* line 54
    IN  IF ~(lineOk /\ propsOk /\ msgOk) THEN [ok |-> FALSE, row |-> <<>>]
        ELSE [ok |-> TRUE,
              row |-> [source_sarif |-> JStr(basename(path)),
                       tool |-> tool,
                       ruleId |-> rule_id,
                       level |-> level,
                       severity |-> JStr(PyStr(SeverityOf(props))),
                       message |-> JStr(Normalize(msg.v)),
                       file |-> uri,
                       line |-> DictGet(region, "startLine", EmptyStr),
                       col |-> DictGet(region, "startColumn", EmptyStr),
                       endLine |-> DictGet(region, "endLine", EmptyStr)]]

\* lines 33-59: the results of one run, in order
RECURSIVE ParseResults(_, _, _)
ParseResults(results, tool, path) ==
    IF results = <<>> THEN [ok |-> TRUE, rows |-> <<>>]
    ELSE LET h == ParseResult(Head(results), tool, path)
             rest == ParseResults(Tail(results), tool, path)
         IN  IF h.ok /\ rest.ok THEN [ok |-> TRUE, rows |-> <<h.row>> \o rest.rows]
             ELSE [ok |-> FALSE, rows |-> <<>>]

\* lines 31-59: one run
ParseRun(run, path) ==
    IF ~IsDict(run) THEN [ok |-> FALSE, rows |-> <<>>]                 \* line 32
    ELSE LET tool == _get(run, <<"tool", "driver", "name">>, JStr(basename(path)))
             results == Or(DictGet(run, "results", JNull), EmptyList)
         IN  IF ~Iterable(results) THEN [ok |-> FALSE, rows |-> <<>>]
             ELSE ParseResults(results.v, tool, path)

\* lines 30-59 with the rows of a later run put first
RECURSIVE ParseRunsReversed(_, _)
ParseRunsReversed(runs, path) ==
    IF runs = <<>> THEN [ok |-> TRUE, rows |-> <<>>]
    ELSE LET h == ParseRun(Head(runs), path)
             rest == ParseRunsReversed(Tail(runs), path)
         IN  IF h.ok /\ rest.ok THEN [ok |-> TRUE, rows |-> rest.rows \o h.rows]
             ELSE [ok |-> FALSE, rows |-> <<>>]

\* lines 30-59: the runs, in order
RECURSIVE ParseRuns(_, _)
ParseRuns(runs, path) ==
    IF runs = <<>> THEN [ok |-> TRUE, rows |-> <<>>]
    ELSE LET h == ParseRun(Head(runs), path)
             rest == ParseRuns(Tail(runs), path)
         IN  IF h.ok /\ rest.ok THEN [ok |-> TRUE, rows |-> h.rows \o rest.rows]
             ELSE [ok |-> FALSE, rows |-> <<>>]

\* A file on disk: kind "missing" (open raises), "badjson" (json.load raises)
\* or "json" with the value json.load returns.
Missing == [kind |-> "missing", val |-> JNull]
BadJson == [kind |-> "badjson", val |-> JNull]
Json(x) == [kind |-> "json", val |-> x]

\* parse_sarif(path) with the file's content: ok is FALSE when it raises
parse_sarif(path, file) ==
    IF file.kind # "json" THEN [ok |-> FALSE, rows |-> <<>>]           \* lines 25-26
    ELSE IF ~IsDict(file.val) THEN [ok |-> FALSE, rows |-> <<>>]       \* line 29
    ELSE LET runs == Or(DictGet(file.val, "runs", JNull), EmptyList)
         IN  IF ~Iterable(runs) THEN [ok |-> FALSE, rows |-> <<>>]
             ELSE ParseRuns(runs.v, path)

----------------------------------------------------------------------------
(* make_charts *)

\* most rules the second chart shows
TopN == 10

\* lines 69-79: bucket(row).  ok is FALSE when (row["level"] or "").lower()
\* raises AttributeError: the level is truthy and not a str.
bucket(row) ==
    IF Truthy(row.severity) /\ row.severity # JStr(<<78,111,110,101>>)
    THEN [ok |-> TRUE, label |-> row.severity]
    ELSE LET lvl == Or(row.level, EmptyStr)
         IN  IF lvl.t # "str" THEN [ok |-> FALSE, label |-> EmptyStr]
             ELSE LET lv == Lower(lvl.v)
                  IN  [ok |-> TRUE,
                       label |-> JStr(IF lv = <<101,114,114,111,114>> THEN <<72,73,71,72>>
                                      ELSE IF lv = <<119,97,114,110,105,110,103>>
                                           THEN <<77,69,68,73,85,77>>
                                      ELSE IF lv = <<110,111,116,101>> THEN <<76,79,87>>
                                      ELSE <<85,78,75,78,79,87,78>>)]

\* Series.value_counts(): value -> number of rows holding it (None is dropped)
value_counts(col) ==
    [x \in {col[k] : k \in 1..Len(col)} \ {JNull} |->
        Cardinality({k \in 1..Len(col) : col[k] = x})]

\* .head(n) of a value_counts(): the n most frequent values, earlier first
\* occurrence first among equals
FirstAt(col, x) == CHOOSE k \in 1..Len(col) : col[k] = x /\ \A j \in 1..(k - 1) : col[j] # x
HeadCounts(col, n) ==
    LET vc == value_counts(col)
        Before(a, b) == \/ vc[a] > vc[b]
                        \/ vc[a] = vc[b] /\ FirstAt(col, a) < FirstAt(col, b)
        top == {x \in DOMAIN vc : Cardinality({y \in DOMAIN vc : Before(y, x)}) < n}
    IN  [x \in top |-> vc[x]]

\* value_counts() hashes the values: a list or a dict raises TypeError
Hashable(x) == x.t \notin {"list", "dict"}

\* lines 81-110: the two charts of a non-empty DataFrame.  apply(bucket)
\* raises when bucket does, value_counts when a ruleId cannot be hashed.  Each
\* cell holds the value parse_sarif stored: no input document puts null next
\* to a number in one column, where pandas would store NaN for the null.
DrawCharts(df) ==
    LET buckets == [k \in 1..Len(df) |-> bucket(df[k])]
        rules == [k \in 1..Len(df) |-> df[k].ruleId]
    IN  IF \E k \in 1..Len(df) : ~buckets[k].ok \/ ~Hashable(rules[k])
        THEN [ok |-> FALSE, charts |-> <<>>]
        ELSE [ok |-> TRUE,
              charts |-> << [path |-> "reports/severity_distribution.png",
                             bars |-> value_counts([k \in 1..Len(df) |-> buckets[k].label])],
                            [path |-> "reports/top_rules.png",
                             bars |-> HeadCounts(rules, TopN)] >>]

\* make_charts(df, out_dir): ok is FALSE when it raises
make_charts(df) ==
    IF df = <<>> THEN [ok |-> TRUE, charts |-> <<>>]                   \* lines 65-66
    ELSE DrawCharts(df)

----------------------------------------------------------------------------
(* df_to_table_data *)

\* line 123: longest message shown whole
MsgMax == 120
\* line 124: characters kept of a longer message
MsgKeep == 117
\* line 126: longest file path shown whole
FileMax == 45
\* line 127: characters kept of a longer file path
FileKeep == 42

\* "..."
Ellipsis == <<46,46,46>>

\* line 113
cols == <<"tool", "ruleId", "level", "severity", "file", "line", "message">>
\* line 120: the header row, as str
HeaderRow ==
    << <<116,111,111,108>>, <<114,117,108,101,73,100>>, <<108,101,118,101,108>>,
       <<115,101,118,101,114,105,116,121>>, <<102,105,108,101>>, <<108,105,110,101>>,
       <<109,101,115,115,97,103,101>> >>

\* lines 115-117: a column the DataFrame lacks reads as ""
Cell(row, c) == IF c \in DOMAIN row THEN row[c] ELSE EmptyStr

\* df.head(n): the first n rows; all but the last -n rows when n is negative
head(df, n) ==
    IF n >= 0 THEN SubSeq(df, 1, IF n < Len(df) THEN n ELSE Len(df))
    ELSE SubSeq(df, 1, Len(df) + n)

\* lines 122-124 cutting at 120 instead of 117
TruncMsgLate(msg) == IF Len(msg) > MsgMax THEN SubSeq(msg, 1, MsgMax) \o Ellipsis ELSE msg

\* lines 122-124
TruncMsg(msg) == IF Len(msg) > MsgMax THEN SubSeq(msg, 1, MsgKeep) \o Ellipsis ELSE msg

\* lines 125-127
TruncFile(filep) ==
    IF Len(filep) > FileMax
    THEN Ellipsis \o SubSeq(filep, Len(filep) - FileKeep + 1, Len(filep))
    ELSE filep

\* lines 122-136: one row of the table
TableRow(row) ==
    << PyStr(Cell(row, "tool")), PyStr(Cell(row, "ruleId")), PyStr(Cell(row, "level")),
       PyStr(Cell(row, "severity")), TruncFile(PyStr(Cell(row, "file"))),
       PyStr(Cell(row, "line")), TruncMsg(PyStr(Cell(row, "message"))) >>

\* df_to_table_data(df, max_rows): the header row, then one row per kept finding
df_to_table_data(df, max_rows) ==
    LET kept == head(df, max_rows)
    IN  <<HeaderRow>> \o [k \in 1..Len(kept) |-> TableRow(kept[k])]

----------------------------------------------------------------------------
(* build_pdf *)

\* line 169: max_rows of every section's table
SectionRows == 60

\* One flowable of the story.  name: the document a heading names; n: the
\* count a paragraph prints; img: the file an Image shows; data: a Table's cells.
Flowable(kind, name, n, img, data) ==
    [kind |-> kind, name |-> name, n |-> n, img |-> img, data |-> data]
Plain(kind) == Flowable(kind, <<>>, 0, "", <<>>)

\* lines 144-147
StoryHead == <<Plain("Title"), Plain("Spacer"), Plain("Generated"), Plain("Spacer")>>

\* df_all.groupby("source_sarif"): the keys in sorted order
GroupKeys(df) == Sorted({df[k].source_sarif.v : k \in 1..Len(df)})
\* ... and the rows of one key, in the order they have in df
RECURSIVE GroupRows(_, _)
GroupRows(df, key) ==
    IF df = <<>> THEN <<>>
    ELSE IF Head(df).source_sarif.v = key THEN <<Head(df)>> \o GroupRows(Tail(df), key)
         ELSE GroupRows(Tail(df), key)

\* lines 167-183: the section of one group
Section(name, df_s) ==
    << Flowable("Heading", name, Len(df_s), "", <<>>),
       Plain("Spacer"),
       Flowable("Table", <<>>, 0, "", df_to_table_data(df_s, SectionRows)),
       Plain("Spacer"),
       Plain("Note"),
       Plain("PageBreak") >>

\* lines 154-183: the story of a non-empty DataFrame
Layout(df, chs) ==
    StoryHead
    \o <<Flowable("Total", <<>>, Len(df), "", <<>>), Plain("Spacer")>>
    \o Flatten([k \in 1..Len(chs) |->
                  <<Flowable("Image", <<>>, 0, chs[k].path, <<>>), Plain("Spacer")>>])
    \o <<Plain("PageBreak")>>
    \o LET keys == GroupKeys(df)
       IN  Flatten([k \in 1..Len(keys) |-> Section(keys[k], GroupRows(df, keys[k]))])

\* lines 149-152 taken away: the empty DataFrame goes through the full layout
build_pdf_no_guard(df, chs) == Layout(df, chs)

\* build_pdf(df_all, pdf_path, charts): the story handed to doc.build.  Every
\* chart in charts was saved by make_charts, so os.path.exists holds for it.
build_pdf(df, chs) ==
    IF df = <<>> THEN StoryHead \o <<Plain("NoFindings")>>              \* lines 149-152
    ELSE Layout(df, chs)

----------------------------------------------------------------------------
(* Inputs: the files on disk *)

\* a key a dict does not hold
Absent == [t |-> "absent", v |-> 0]

\* the dict of the <<key, value>> pairs whose value is not Absent
Obj(pairs) ==
    LET present == {p \in pairs : p[2] # Absent}
    IN  JDict([k \in {p[1] : p \in present} |-> (CHOOSE p \in present : p[1] = k)[2]])

\* every str of at most n characters over the alphabet A
RECURSIVE Texts(_, _)
Texts(A, n) ==
    IF n = 0 THEN {<<>>}
    ELSE LET shorter == Texts(A, n - 1)
         IN  shorter \cup {Append(s, c) : s \in shorter, c \in A}

\* a str of n characters, each position recognisable
LongText(n) == [k \in 1..n |-> 97 + (k % 26)]

S_error == JStr(<<101,114,114,111,114>>)
S_note == JStr(<<110,111,116,101>>)
S_warning == JStr(<<119,97,114,110,105,110,103>>)
S_None == JStr(<<78,111,110,101>>)
S_critical == JStr(<<99,114,105,116,105,99,97,108>>)
S_x == JStr(<<120>>)
R1 == JStr(<<82,49>>)
R2 == JStr(<<82,50>>)
R3 == JStr(<<82,51>>)

\* {"text": s}
Msg(s) == Obj({<<"text", JStr(s)>>})

\* one result entry
Result(ruleId, level, message, locations, properties) ==
    Obj({<<"ruleId", ruleId>>, <<"level", level>>, <<"message", message>>,
         <<"locations", locations>>, <<"properties", properties>>})

\* a full location: src/a.py, line 7
Loc ==
    Obj({<<"physicalLocation",
           Obj({<<"artifactLocation", Obj({<<"uri", JStr(<<115,114,99,47,97,46,112,121>>)>>})>>,
                <<"region", Obj({<<"startLine", JNum(7)>>, <<"startColumn", JNum(1)>>})>>})>>})

\* {"runs": [{"results": results}]}
OneRun(results) == Obj({<<"runs", JList(<<Obj({<<"results", JList(results)>>})>>)>>})

GoodResult == Result(R1, S_error, Msg(<<97,10,98>>), JList(<<Loc>>), Absent)

\* values of the level field
LevelVals ==
    {Absent, S_error, JStr(<<69,82,82,79,82>>), JStr(<<87,97,114,110,105,110,103>>), S_note,
     JStr(<<110,111,110,101>>), EmptyStr, JNull, JNum(5), JNum(0), JBool(TRUE), JBool(FALSE),
     EmptyList, JList(<<S_x>>)}

\* values under properties.severity, properties.security-severity, properties.cvss
SevVals == {Absent, EmptyStr, S_None, S_critical, JNum(0), JNum(7), JBool(FALSE), JNull}
SecSevVals == {Absent, JNum(0), JStr(<<56,46,49>>)}
CvssVals == {Absent, EmptyStr, JStr(<<53,46,48>>)}

PropsVals ==
    {Obj({<<"severity", a>>, <<"security-severity", b>>, <<"cvss", c>>}) :
        a \in SevVals, b \in SecSevVals, c \in CvssVals}
    \cup {Absent, JNull, S_x, JNum(1), EmptyList, JList(<<S_x>>)}

\* values of the message field
MessageVals ==
    {Msg(s) : s \in Texts({97, SP, LF, 13}, MaxText)}
    \cup {Absent, JNull, EmptyDict, S_x, Obj({<<"text", JNum(5)>>}), Obj({<<"text", JNull>>}),
          Obj({<<"text", EmptyList>>})}

\* values of the locations field
LocationsVals ==
    {Absent, JNull, EmptyList, JList(<<EmptyDict>>), JList(<<Loc>>), JList(<<Loc, S_x>>),
     JList(<<S_x>>), JList(<<JNull>>), JList(<<JNum(5)>>), S_x, JNum(5), JBool(TRUE),
     Obj({<<"a", Loc>>}),
     JList(<<Obj({<<"physicalLocation", S_x>>})>>),
     JList(<<Obj({<<"physicalLocation", JNull>>})>>),
     JList(<<Obj({<<"physicalLocation", Obj({<<"region", S_x>>})>>})>>),
     JList(<<Obj({<<"physicalLocation", Obj({<<"region", JNull>>})>>})>>),
     JList(<<Obj({<<"physicalLocation", Obj({<<"artifactLocation", S_x>>})>>})>>),
     JList(<<Obj({<<"physicalLocation",
                    Obj({<<"artifactLocation", Obj({<<"uri", JList(<<S_x>>)>>})>>})>>})>>)}

\* result entries, one field varied at a time (level together with severity)
ResultVals ==
    {Result(R1, l, Msg(<<97>>), Absent,
            IF s = Absent THEN Absent ELSE Obj({<<"severity", s>>})) :
        l \in LevelVals, s \in {Absent, S_None, S_critical, JNum(0)}}
    \cup {Result(R1, S_warning, Msg(<<97>>), Absent, p) : p \in PropsVals}
    \cup {Result(R1, S_error, m, Absent, Absent) : m \in MessageVals}
    \cup {Result(R1, S_error, Msg(<<97>>), loc, Absent) : loc \in LocationsVals}
    \cup {Result(r, S_error, Msg(<<97>>), Absent, Absent) : r \in {Absent, JNull, JNum(3), EmptyList}}

\* documents of one file: every shape of the top level, of runs, of a run, of
\* results, and every result entry above alone and beside a well-formed one
RichDocs ==
    {OneRun(<<r>>) : r \in ResultVals}
    \cup {OneRun(<<GoodResult, r, GoodResult>>) :
            r \in {S_x, JNull, JNum(5), EmptyList, EmptyDict,
                   Result(R2, S_note, Obj({<<"text", JNum(5)>>}), Absent, Absent),
                   Result(R2, S_note, Msg(<<97>>), S_x, Absent),
                   Result(R2, S_note, Msg(<<97>>), Absent, S_x)}}
    \cup {EmptyList, JList(<<EmptyDict>>), S_x, JNum(5), JNull, JBool(TRUE), EmptyDict}
    \cup {Obj({<<"runs", v>>}) :
            v \in {JNull, EmptyList, EmptyDict, S_x, JNum(5), JBool(TRUE), Obj({<<"a", S_x>>}),
                   JList(<<S_x>>), JList(<<JNull>>), JList(<<EmptyList>>), JList(<<EmptyDict>>),
                   JList(<<Obj({<<"results", JList(<<GoodResult>>)>>}), JNum(5)>>)}}
    \cup {Obj({<<"runs", JList(<<Obj({<<"results", v>>})>>)>>}) :
            v \in {JNull, EmptyList, EmptyDict, S_x, JNum(5), JBool(TRUE), Obj({<<"a", S_x>>})}}

\* two runs of a named tool, three results with distinct rules
DocA ==
    Obj({<<"runs",
           JList(<< Obj({<<"tool", Obj({<<"driver",
                                          Obj({<<"name", JStr(<<115,101,109,103,114,101,112>>)>>})>>})>>,
                         <<"results", JList(<<GoodResult,
                                              Result(R2, S_note, Msg(<<97>>), Absent, Absent)>>)>>}),
                    Obj({<<"results", JList(<<Result(R3, S_warning, Msg(<<98,32>>), Absent,
                                                     Obj({<<"cvss", S_critical>>}))>>)>>}) >>)>>})

\* the documents of a run over several files
BasicFiles ==
    {Missing, BadJson, Json(EmptyList), Json(EmptyDict),
     Json(OneRun(<<>>)),
     Json(DocA),
     Json(OneRun(<<Result(R2, S_error, Msg(<<97>>), JList(<<Loc>>), Obj({<<"severity", S_critical>>}))>>)),
     Json(OneRun(<<Result(R1, JNum(5), Msg(<<97>>), Absent, Absent)>>)),
     Json(OneRun(<<GoodResult, Result(R2, S_note, Obj({<<"text", JNum(5)>>}), Absent, Absent)>>))}

P_ax == <<97,47,120,46,115,97,114,105,102>>
P_bx == <<98,47,120,46,115,97,114,105,102>>
P_y == <<121,46,115,97,114,105,102>>
P_nm == <<110,111,100,101,95,109,111,100,117,108,101,115,47,121,46,115,97,114,105,102>>

\* a/x.sarif, b/x.sarif, y.sarif, node_modules/y.sarif
PathPool == {P_ax, P_bx, P_y, P_nm}

----------------------------------------------------------------------------
(* main *)

\* line 190
Kept(s) ==
    /\ ~Contains(s, <<47,46,103,105,116,47>>)
    /\ ~Contains(s, <<110,111,100,101,95,109,111,100,117,108,101,115>>)

\* df_to_table_data is not running on its own
TableIdle == t_df = <<>> /\ t_max = 0 /\ t_out = <<>>

\* The state when main starts: the files on disk are the input.  One file
\* alone takes every document of RichDocs, several files the BasicFiles.
Init ==
    /\ found \in {fs \in SUBSET PathPool : Cardinality(fs) <= MaxFiles}
    /\ files \in [found -> IF found = {P_y} THEN BasicFiles \cup {Json(d) : d \in RichDocs}
                           ELSE BasicFiles]
    /\ sarifs = <<>>
    /\ i = 0
    /\ dfs = <<>>
    /\ warns = <<>>
    /\ df_all = <<>>
    /\ csv = <<>>
    /\ charts = <<>>
    /\ story = <<>>
    /\ printed = <<>>
    /\ pc = "glob"
    /\ TableIdle

\* lines 188-193: the sorted set of discovered paths, filtered
Glob ==
    /\ pc = "glob"
    /\ sarifs' = SelectSeq(Sorted(found), Kept)
    /\ pc' = "loop"
    /\ UNCHANGED <<found, files, i, dfs, warns, df_all, csv, charts, story, printed>>
    /\ UNCHANGED tableVars

\* lines 196-202: one turn of the for loop
LoopBody ==
    /\ pc = "loop"
    /\ i < Len(sarifs)
    /\ LET s == sarifs[i + 1]
           df == parse_sarif(s, files[s])
       IN  /\ dfs' = IF df.ok /\ df.rows # <<>> THEN Append(dfs, df.rows) ELSE dfs
           /\ warns' = IF df.ok THEN warns ELSE Append(warns, s)
    /\ i' = i + 1
    /\ UNCHANGED <<found, files, sarifs, df_all, csv, charts, story, printed, pc>>
    /\ UNCHANGED tableVars

\* pd.concat(dfs, ignore_index=True) if dfs else pd.DataFrame()
concat(ds) == Flatten(ds)

\* lines 204-206: the loop is over; concatenate and write the CSV
Concat ==
    /\ pc = "loop"
    /\ i = Len(sarifs)
    /\ df_all' = concat(dfs)
    /\ csv' = <<df_all'>>
    /\ pc' = "charts"
    /\ UNCHANGED <<found, files, sarifs, i, dfs, warns, charts, story, printed>>
    /\ UNCHANGED tableVars

\* line 208: make_charts; an exception it raises ends main
MakeCharts ==
    /\ pc = "charts"
    /\ LET r == make_charts(df_all)
       IN  /\ charts' = r.charts
           /\ pc' = IF r.ok THEN "pdf" ELSE "crashed"
    /\ UNCHANGED <<found, files, sarifs, i, dfs, warns, df_all, csv, story, printed>>
    /\ UNCHANGED tableVars

\* lines 209-210
BuildPdf ==
    /\ pc = "pdf"
    /\ story' = build_pdf(df_all, charts)
    /\ pc' = "print"
    /\ UNCHANGED <<found, files, sarifs, i, dfs, warns, df_all, csv, charts, printed>>
    /\ UNCHANGED tableVars

\* lines 212-215
Summary ==
    /\ pc = "print"
    /\ printed' = <<Len(sarifs), Len(df_all)>>
    /\ pc' = "done"
    /\ UNCHANGED <<found, files, sarifs, i, dfs, warns, df_all, csv, charts, story>>
    /\ UNCHANGED tableVars

Next == Glob \/ LoopBody \/ Concat \/ MakeCharts \/ BuildPdf \/ Summary

Spec == Init /\ [][Next]_vars

----------------------------------------------------------------------------
(* df_to_table_data called on its own *)

\* rows whose message and file lengths lie on both sides of the two limits
TableRowVals ==
    {[tool |-> S_x, ruleId |-> R1, level |-> S_error, severity |-> EmptyStr,
      file |-> f, line |-> JNum(7), message |-> JStr(LongText(m))] :
        m \in {0, MsgMax, MsgMax + 1, MsgMax + 5},
        f \in {JStr(LongText(FileMax)), JStr(LongText(FileMax + 1)), JNum(5)}}

\* a row of a DataFrame that has only the columns tool and message
ShortRow == [tool |-> S_x, message |-> JStr(LongText(MsgMax + 2))]

RECURSIVE Frames(_)
Frames(n) ==
    IF n = 0 THEN {<<>>}
    ELSE LET shorter == Frames(n - 1)
         IN  shorter \cup {Append(d, r) : d \in shorter, r \in TableRowVals}

InitTable ==
    /\ found = {}
    /\ files = <<>>
    /\ sarifs = <<>>
    /\ i = 0
    /\ dfs = <<>>
    /\ warns = <<>>
    /\ df_all = <<>>
    /\ csv = <<>>
    /\ charts = <<>>
    /\ story = <<>>
    /\ printed = <<>>
    /\ pc = "table"
    /\ t_df \in Frames(MaxTableRows) \cup {[k \in 1..n |-> ShortRow] : n \in 1..MaxTableRows}
    /\ t_max \in (0 - MaxRowsArg)..MaxRowsArg
    /\ t_out = <<>>

\* data = df_to_table_data(t_df, max_rows=t_max)
CallTable ==
    /\ pc = "table"
    /\ t_out = <<>>
    /\ t_out' = <<df_to_table_data(t_df, t_max)>>
    /\ UNCHANGED <<t_df, t_max>>
    /\ UNCHANGED mainVars

SpecTable == InitTable /\ [][CallTable]_vars

----------------------------------------------------------------------------
(* What the claims speak of *)

\* main is past line 204: df_all holds the dataset
AfterConcat == pc \in {"charts", "pdf", "print", "done", "crashed"}

\* the document at path p could not be read or parsed: parse_sarif raised
Fails(p) == ~parse_sarif(p, files[p]).ok

\* the findings parse_sarif returns for the document at path p
FindingsOf(p) == parse_sarif(p, files[p]).rows

\* the document at path p parsed and holds at least one finding
Contributes(p) == ~Fails(p) /\ FindingsOf(p) # <<>>

\* v.get(key) or [], read off the JSON value
ListAt(v, key) ==
    IF IsDict(v) /\ key \in DOMAIN v.v /\ v.v[key].t = "list" THEN v.v[key].v ELSE <<>>

\* the result entries of the document at path p, runs in order and results in
\* order within each run, each with its path; none for a failing document
SourceEntries(p) ==
    IF Fails(p) THEN <<>>
    ELSE LET runs == ListAt(files[p].val, "runs")
         IN  Flatten([r \in 1..Len(runs) |->
                        LET results == ListAt(runs[r], "results")
                        IN  [e \in 1..Len(results) |-> [path |-> p, entry |-> results[e]]]])

\* the result entries of all processed documents, in processing order
AllSources == Flatten([k \in 1..Len(sarifs) |-> SourceEntries(sarifs[k])])

\* entry[key], or default when the key is absent
FieldOr(entry, key, default) == IF key \in DOMAIN entry.v THEN entry.v[key] ELSE default

\* message.text of a result entry, "" when there is none
SourceText(entry) ==
    LET m == FieldOr(entry, "message", EmptyDict)
    IN  IF IsDict(m) /\ "text" \in DOMAIN m.v THEN m.v["text"].v ELSE <<>>

\* s without its leading and trailing whitespace, then every "\n" left made " "
TrimmedThenReplaced(s) ==
    LET solid == {k \in 1..Len(s) : ~IsSpace(s[k])}
    IN  IF solid = {} THEN <<>>
        ELSE LET lo == CHOOSE k \in solid : \A j \in solid : k <= j
                 hi == CHOOSE k \in solid : \A j \in solid : k >= j
             IN  [k \in 1..(hi - lo + 1) |-> IF s[lo + k - 1] = LF THEN SP ELSE s[lo + k - 1]]

\* the label the classification policy gives a row
PolicyLabel(row) ==
    IF row.severity.v # <<>> /\ row.severity.v # <<78,111,110,101>> THEN row.severity.v
    ELSE IF row.level.t = "str" /\ Lower(row.level.v) = <<101,114,114,111,114>> THEN <<72,73,71,72>>
    ELSE IF row.level.t = "str" /\ Lower(row.level.v) = <<119,97,114,110,105,110,103>>
         THEN <<77,69,68,73,85,77>>
    ELSE IF row.level.t = "str" /\ Lower(row.level.v) = <<110,111,116,101>> THEN <<76,79,87>>
    ELSE <<85,78,75,78,79,87,78>>

\* the value of the first of severity, security-severity, cvss the properties
\* map holds, as a str; "" when it holds none of them
FirstPresent(entry) ==
    LET props == FieldOr(entry, "properties", EmptyDict)
        has(k) == IsDict(props) /\ k \in DOMAIN props.v
    IN  IF has("severity") THEN PyStr(props.v["severity"])
        ELSE IF has("security-severity") THEN PyStr(props.v["security-severity"])
        ELSE IF has("cvss") THEN PyStr(props.v["cvss"])
        ELSE <<>>

\* the kinds of the flowables of a story
Kinds(st) == [k \in 1..Len(st) |-> st[k].kind]

IsHeading(f) == f.kind = "Heading"

\* the section that starts at the heading story[h] carries the truncation note
HasNote(h) ==
    \E n \in (h + 1)..Len(story) :
        /\ story[n].kind = "Note"
        /\ \A j \in (h + 1)..(n - 1) : story[j].kind \notin {"Heading", "PageBreak"}

----------------------------------------------------------------------------
(* The claims *)

\* C1: whichever documents fail to read or parse, the run reaches the end
\* (export and report written, no exception leaves main), the dataset is
\* exactly the findings of the documents that parsed, and the warnings are
\* exactly the failing documents, one each.
C1_PerDocumentIsolation ==
    /\ pc # "crashed"
    /\ pc = "done" =>
         /\ csv # <<>> /\ story # <<>>
         /\ df_all = Flatten([k \in 1..Len(sarifs) |-> FindingsOf(sarifs[k])])
         /\ warns = SelectSeq(sarifs, Fails)

\* C2: bucket returns, without failing, for every finding row of the dataset
\* the label of the first-match policy, whatever the type of the level.
C2_BucketTotal ==
    AfterConcat =>
        \A k \in 1..Len(df_all) :
            /\ bucket(df_all[k]).ok
            /\ bucket(df_all[k]).label = JStr(PolicyLabel(df_all[k]))

\* C3: a document json.load accepted never makes parse_sarif raise: no
\* warning is logged for it, whatever its shape.
C3_ExtractionNeverFails ==
    \A k \in 1..i : files[sarifs[k]].kind = "json" => ~(\E w \in 1..Len(warns) : warns[w] = sarifs[k])

\* C5: every finding's message has no newline and is the source message.text
\* trimmed, with each newline left inside replaced by a space.
C5_MessageNormalized ==
    AfterConcat =>
        /\ Len(df_all) = Len(AllSources)
        /\ \A k \in 1..Len(df_all) :
              /\ df_all[k].message.v = TrimmedThenReplaced(SourceText(AllSources[k].entry))
              /\ \A c \in 1..Len(df_all[k].message.v) : df_all[k].message.v[c] # LF

\* a finding whose source text starts with whitespace and has a newline
\* between two other characters
C5_Witness ==
    /\ pc = "done"
    /\ \E k \in 1..Len(df_all) :
          LET s == SourceText(AllSources[k].entry)
          IN  /\ Len(s) = 4 /\ IsSpace(s[1]) /\ ~IsSpace(s[2]) /\ s[3] = LF /\ ~IsSpace(s[4])
              /\ Len(df_all[k].message.v) = 3

\* C6: when no document contributes a finding, the run ends without error
\* (main never raises, and until it is done the statement it stands at can
\* run), with an empty dataset, no chart, and a report that holds the title,
\* the timestamp and the "no findings" message only.
C6_EmptyDataset ==
    (\A p \in found : Kept(p) => ~Contributes(p)) =>
        /\ pc # "crashed"
        /\ pc \in {"glob", "charts", "pdf", "print", "done"} \/ (pc = "loop" /\ i <= Len(sarifs))
        /\ AfterConcat => df_all = <<>> /\ csv = << <<>> >>
        /\ pc \in {"pdf", "print", "done"} => charts = <<>>
        /\ pc \in {"print", "done"} =>
              Kinds(story) = <<"Title", "Spacer", "Generated", "Spacer", "NoFindings">>

\* two documents, one failing and one with zero findings, and the run is over
C6_Witness ==
    /\ pc = "done"
    /\ Len(sarifs) = 2
    /\ Len(warns) = 1
    /\ df_all = <<>>
    /\ story[Len(story)].kind = "NoFindings"

\* C7: the raw severity of every finding is the str of the value of the first
\* key present among severity, security-severity, cvss, whatever the value,
\* and empty only when none is present.
C7_FirstPresentKey ==
    AfterConcat =>
        /\ Len(df_all) = Len(AllSources)
        /\ \A k \in 1..Len(df_all) : df_all[k].severity.v = FirstPresent(AllSources[k].entry)

\* C8: a section carries the truncation note if and only if its document has
\* more findings than the table's maximum.
C8_NoteIffTruncated ==
    pc = "done" =>
        \A h \in 1..Len(story) :
            story[h].kind = "Heading" => (HasNote(h) <=> story[h].n > SectionRows)

\* C9: the non-empty report has exactly one section for each input document
\* that contributed a finding, with that document's own count, in name order.
C9_OneSectionPerDocument ==
    pc = "done" /\ df_all # <<>> =>
        LET heads == SelectSeq(story, IsHeading)
            docs == SelectSeq(sarifs, Contributes)
        IN  /\ Len(heads) = Len(docs)
            /\ \A d \in 1..Len(docs) :
                  \E h \in 1..Len(heads) :
                      /\ heads[h].name = basename(docs[d])
                      /\ heads[h].n = Len(FindingsOf(docs[d]))
            /\ \A a, b \in 1..Len(heads) : a < b => ~StrLess(heads[b].name, heads[a].name)

\* C10: the dataset is the findings of the processed documents, documents in
\* sorted path order, runs and results in document order, one row per result
\* entry.
C10_DatasetOrder ==
    AfterConcat =>
        /\ \A a, b \in 1..Len(sarifs) : a < b => StrLess(sarifs[a], sarifs[b])
        /\ {sarifs[k] : k \in 1..Len(sarifs)} = {p \in found : Kept(p)}
        /\ Len(df_all) = Len(AllSources)
        /\ \A k \in 1..Len(df_all) :
              LET e == AllSources[k]
              IN  /\ df_all[k].source_sarif.v = basename(e.path)
                  /\ df_all[k].ruleId = FieldOr(e.entry, "ruleId", EmptyStr)
                  /\ df_all[k].level = FieldOr(e.entry, "level", EmptyStr)

\* two contributing documents, one of them with two runs, and the run is over
C10_Witness ==
    /\ pc = "done"
    /\ Len(dfs) = 2
    /\ Len(df_all) >= 4
    /\ \E k \in 1..(Len(df_all) - 1) : df_all[k].tool # df_all[k + 1].tool

----------------------------------------------------------------------------
(* The claim about df_to_table_data *)

\* no message cell is longer than 120 characters, no file cell longer than 45
CellsBounded(data) ==
    \A r \in 1..Len(data) : Len(data[r][7]) <= MsgMax /\ Len(data[r][5]) <= FileMax

\* C4 as stated: the cells are bounded and the returned table has at most
\* max_rows rows.
C4_TableBounded ==
    t_out # <<>> => CellsBounded(t_out[1]) /\ Len(t_out[1]) <= t_max

\* C4: the cells are bounded; the table is the header row followed by at most
\* max_rows finding rows, for a max_rows that is not negative.
C4_TableBoundedBelowHeader ==
    t_out # <<>> =>
        /\ CellsBounded(t_out[1])
        /\ t_out[1][1] = HeaderRow
        /\ t_max >= 0 => Len(t_out[1]) - 1 <= t_max

\* more findings than max_rows, a message cut to 120 and a file cut to 45
C4_Witness ==
    /\ t_out # <<>>
    /\ t_max >= 1
    /\ Len(t_df) > t_max
    /\ Len(t_out[1]) = t_max + 1
    /\ \E r \in 2..Len(t_out[1]) :
          /\ Len(t_out[1][r][7]) = MsgMax
          /\ SubSeq(t_out[1][r][7], MsgKeep + 1, MsgMax) = Ellipsis
          /\ Len(t_out[1][r][5]) = FileMax
          /\ SubSeq(t_out[1][r][5], 1, 3) = Ellipsis

=============================================================================
